---- MODULE Spec2Model ----
(***************************************************************************)
(* The two notebooks of the repository as state machines.                  *)
(*                                                                         *)
(*   examples/3coloring-csp.ipynb  builds a CP-SAT model of 3-coloring,    *)
(*                                 calls the solver, prints a coloring.    *)
(*   examples/asp.ipynb            adds an answer set program to a clingo  *)
(*                                 Control, grounds, solves, reports.      *)
(*                                                                         *)
(* A run executes the cells of one notebook top to bottom.                 *)
(***************************************************************************)
EXTENDS Integers, Sequences, FiniteSets

VARIABLES
    notebook,       \* which notebook this run executes: "csp" or "asp"
    pc,             \* position in the notebook
    calls,          \* the library calls made so far, in order
    out,            \* the lines printed so far, in order
    \* ---- 3coloring-csp.ipynb
    num_vertices,   \* cell 2
    edges,          \* cell 2: sequence of pairs <<i, j>>
    model,          \* cell 1: the CpModel: its variables and its constraints
    vars,           \* cell 3: dict vertex -> index of its variable in model
    i,              \* loop variable of the for loops
    answer,         \* cell 5 (csp): status of Solve; cell 5 (asp): SolveResult
    solution,       \* what the CpSolver holds after Solve
    \* ---- asp.ipynb
    asp_program,    \* cell 2: the program text, as its rules
    control,        \* cell 3: the clingo Control: parts added, ground program
    models,         \* cell 5: control.configuration.solve.models
    found           \* the answer sets the running solve has reported

vars_all == <<notebook, pc, calls, out, num_vertices, edges, model, vars, i,
              answer, solution, asp_program, control, models, found>>

cspVars == <<num_vertices, edges, model, vars, i, solution>>
aspVars == <<asp_program, control, models, found>>

None == "None"

----------------------------------------------------------------------------
(* Bounds of the model.                                                    *)

\* Graphs have at most MaxN vertices.
MaxN == 4

\* A variant of the answer set program adds at most MaxExtra constraints.
MaxExtra == 1

\* solve.models is set to a number in 0..MaxModels.
MaxModels == 2

----------------------------------------------------------------------------
(* 3coloring-csp.ipynb                                                     *)

\* NewIntVar(1, 3, ...): the bounds of every variable's domain.
ColorLo == 1
ColorHi == 3

FEASIBLE == "FEASIBLE"
OPTIMAL == "OPTIMAL"
INFEASIBLE == "INFEASIBLE"

\* The example of cell 2.
ExampleNumVertices == 4
ExampleEdges == << <<1,2>>, <<1,3>>, <<2,3>>, <<2,4>>, <<3,4>> >>

\* Edges are sets of exactly two vertices, written as pairs of indices.
EdgePairs(n) == {p \in (1..n) \X (1..n) : p[1] < p[2]}

PairLeq(p, q) == p[1] < q[1] \/ (p[1] = q[1] /\ p[2] <= q[2])

RECURSIVE EdgeList(_)
EdgeList(S) ==
    IF S = {} THEN <<>>
    ELSE LET m == CHOOSE p \in S : \A q \in S : PairLeq(p, q)
         IN  <<m>> \o EdgeList(S \ {m})

\* cp_model.CpModel(): no variables, no constraints.
CpModel == [variables |-> <<>>, constraints |-> <<>>]

\* NewIntVar with a domain one value too wide, as NewIntVar(0, 3, ...) gives.
NewIntVar_WiderDomain(m, lo, hi, name) ==
    [m EXCEPT !.variables = Append(@, [lo |-> lo - 1, hi |-> hi, name |-> name])]

\* model.NewIntVar(lo, hi, name): the model with the variable appended; the
\* value returned is the new variable's index, Len(m.variables) + 1.
NewIntVar(m, lo, hi, name) ==
    [m EXCEPT !.variables = Append(@, [lo |-> lo, hi |-> hi, name |-> name])]

\* "x{}".format(i)
VarName(v) == <<"x", v>>

\* The constraint of vars[a] == vars[b], an equality written for the inequality.
NotEqual_Eq(a, b) == [kind |-> "eq", left |-> a, right |-> b]

\* vars[a] != vars[b]: the constraint expression built from two variables.
NotEqual(a, b) == [kind |-> "ne", left |-> a, right |-> b]

\* An Add that replaces the constraints registered before.
Add_KeepsLast(m, ct) == [m EXCEPT !.constraints = <<ct>>]

\* model.Add(ct)
Add(m, ct) == [m EXCEPT !.constraints = Append(@, ct)]

\* The assignments of the model's variables to values of their domains.
Assignments(m) ==
    LET nv == Len(m.variables)
        vals == UNION {m.variables[v].lo .. m.variables[v].hi : v \in 1..nv}
    IN  {a \in [1..nv -> vals] :
            \A v \in 1..nv : a[v] \in m.variables[v].lo .. m.variables[v].hi}

\* An assignment satisfies a constraint.
Satisfies(a, ct) ==
    /\ ct.kind = "ne" => a[ct.left] # a[ct.right]
    /\ ct.kind = "eq" => a[ct.left] = a[ct.right]

\* The solutions of the CSP instance.
SatisfyingAssignments(m) ==
    {a \in Assignments(m) :
        \A c \in 1..Len(m.constraints) : Satisfies(a, m.constraints[c])}

\* A coloring of the vertices 1..n with the colors of the domain.
Colorings(n) == [1..n -> ColorLo..ColorHi]

\* mu is proper: the endpoints of every edge get different colors.
Proper(mu, E) == \A e \in 1..Len(E) : mu[E[e][1]] # mu[E[e][2]]

ProperColorings(n, E) == {mu \in Colorings(n) : Proper(mu, E)}

\* The coloring an assignment stands for: vertex v gets the value of vars[v].
ColoringOf(a) == [v \in DOMAIN vars |-> a[vars[v]]]

\* Cells 1 and 2 have run: an empty model and a graph.
InitCSP ==
    /\ notebook = "csp"
    /\ \/ /\ num_vertices \in 0..MaxN
          /\ edges \in {EdgeList(S) : S \in SUBSET EdgePairs(num_vertices)}
       \/ /\ num_vertices = ExampleNumVertices
          /\ edges = ExampleEdges
    /\ model = CpModel
    /\ vars = <<>>
    /\ i = 1
    /\ pc = "cell3"
    /\ calls = <<>>
    /\ out = <<>>
    /\ answer = None
    /\ solution = None
    /\ asp_program = None
    /\ control = None
    /\ models = 0
    /\ found = {}

\* Cell 3, loop body: vars[i] = model.NewIntVar(1, 3, "x{}".format(i))
NewVar ==
    /\ notebook = "csp" /\ pc = "cell3"
    /\ i <= num_vertices
    /\ model' = NewIntVar(model, ColorLo, ColorHi, VarName(i))
    /\ vars' = [v \in DOMAIN vars \cup {i} |->
                    IF v = i THEN Len(model.variables) + 1 ELSE vars[v]]
    /\ calls' = Append(calls, "NewIntVar")
    /\ i' = i + 1
    /\ UNCHANGED <<notebook, pc, out, num_vertices, edges, answer, solution, aspVars>>

\* Cell 3, range(1, num_vertices+1) is exhausted; cell 4 starts.
NewVarDone ==
    /\ notebook = "csp" /\ pc = "cell3"
    /\ i > num_vertices
    /\ pc' = "cell4"
    /\ i' = 1
    /\ UNCHANGED <<notebook, calls, out, num_vertices, edges, model, vars, answer,
                   solution, aspVars>>

\* Cell 4, loop body: model.Add(vars[i] != vars[j]) for the next edge (i,j).
AddEdgeConstraint ==
    /\ notebook = "csp" /\ pc = "cell4"
    /\ i <= Len(edges)
    /\ model' = Add(model, NotEqual(vars[edges[i][1]], vars[edges[i][2]]))
    /\ calls' = Append(calls, "Add")
    /\ i' = i + 1
    /\ UNCHANGED <<notebook, pc, out, num_vertices, edges, vars, answer, solution,
                   aspVars>>

\* The loop of cell 4 left one edge early.
AddEdgeConstraintDone_Early ==
    /\ notebook = "csp" /\ pc = "cell4"
    /\ i >= Len(edges)
    /\ pc' = "cell5"
    /\ i' = 1
    /\ UNCHANGED <<notebook, calls, out, num_vertices, edges, model, vars, answer,
                   solution, aspVars>>

\* Cell 4, the edge list is exhausted; cell 5 starts.
AddEdgeConstraintDone ==
    /\ notebook = "csp" /\ pc = "cell4"
    /\ i > Len(edges)
    /\ pc' = "cell5"
    /\ i' = 1
    /\ UNCHANGED <<notebook, calls, out, num_vertices, edges, model, vars, answer,
                   solution, aspVars>>

\* The statuses with which CpSolver.Solve reports a solution of a model
\* that has no objective: FEASIBLE or OPTIMAL, depending on the library's
\* release.
SolutionStatuses == {FEASIBLE, OPTIMAL}

\* Cell 5: solver = cp_model.CpSolver(); answer = solver.Solve(model)
Solve ==
    /\ notebook = "csp" /\ pc = "cell5"
    /\ LET sols == SatisfyingAssignments(model)
       IN  IF sols = {}
           THEN answer' = INFEASIBLE /\ solution' = None
           ELSE /\ answer' \in SolutionStatuses
                /\ solution' \in sols
    /\ calls' = Append(calls, "Solve")
    /\ pc' = "cell5_if"
    /\ UNCHANGED <<notebook, out, num_vertices, edges, model, vars, i, aspVars>>

\* The test of cell 5's if.
Colorable == answer = FEASIBLE

\* Cell 5, then-branch: print("The graph is 3-colorable:")
PrintColorable ==
    /\ notebook = "csp" /\ pc = "cell5_if"
    /\ Colorable
    /\ out' = Append(out, <<"The graph is 3-colorable:">>)
    /\ pc' = "cell5_for"
    /\ i' = 1
    /\ UNCHANGED <<notebook, calls, num_vertices, edges, model, vars, answer,
                   solution, aspVars>>

\* Cell 5, loop body: print("- Vertex {} gets color {}".format(i, solver.Value(vars[i])))
PrintVertex ==
    /\ notebook = "csp" /\ pc = "cell5_for"
    /\ i <= num_vertices
    /\ out' = Append(out, <<"- Vertex {} gets color {}", i, solution[vars[i]]>>)
    /\ calls' = Append(calls, "Value")
    /\ i' = i + 1
    /\ UNCHANGED <<notebook, pc, num_vertices, edges, model, vars, answer, solution,
                   aspVars>>

PrintVertexDone ==
    /\ notebook = "csp" /\ pc = "cell5_for"
    /\ i > num_vertices
    /\ pc' = "done"
    /\ UNCHANGED <<notebook, calls, out, cspVars, answer, aspVars>>

\* Cell 5, else-branch: print("The graph is not 3-colorable!")
PrintNotColorable ==
    /\ notebook = "csp" /\ pc = "cell5_if"
    /\ ~Colorable
    /\ out' = Append(out, <<"The graph is not 3-colorable!">>)
    /\ pc' = "done"
    /\ UNCHANGED <<notebook, calls, cspVars, answer, aspVars>>

NextCSP ==
    \/ NewVar \/ NewVarDone
    \/ AddEdgeConstraint \/ AddEdgeConstraintDone
    \/ Solve
    \/ PrintColorable \/ PrintVertex \/ PrintVertexDone
    \/ PrintNotColorable

----------------------------------------------------------------------------
(* asp.ipynb                                                               *)

\* #const k=3.
K == 3

\* control.configuration.solve.models = 1
SingleModel == 1

\* The predicates of the program and the atom of its integrity constraint.
Bottom == <<"#false", 0>>

\* A statement of a program.  kind "facts": head(1..arg).  kind "rule":
\* head(X) :- pos(X)..., not neg(X)...  kind "constraint": :- pos(arg)...,
\* not neg(arg)...
Facts(h, n) == [kind |-> "facts", head |-> h, pos |-> {}, neg |-> {}, arg |-> n]
Rule(h, ps, ns) == [kind |-> "rule", head |-> h, pos |-> ps, neg |-> ns, arg |-> 0]
Constraint(ps, ns, x) ==
    [kind |-> "constraint", head |-> Bottom[1], pos |-> ps, neg |-> ns, arg |-> x]

\* The program without its last line, the integrity constraint.
NotebookProgram_NoConstraint ==
    << Facts("number", K),
       Rule("left", {"number"}, {"right"}),
       Rule("right", {"number"}, {"left"}) >>

\* Cell 2: the program of the notebook.
NotebookProgram ==
    << Facts("number", K),
       Rule("left", {"number"}, {"right"}),
       Rule("right", {"number"}, {"left"}),
       Constraint({"right"}, {}, 2) >>

\* The integrity constraints  :- p(x).  a variant of the program may add.
ExtraConstraints ==
    {Constraint({p}, {}, x) : p \in {"left", "right"}, x \in 1..K}
        \ {Constraint({"right"}, {}, 2)}

RECURSIVE StatementList(_)
StatementList(S) ==
    IF S = {} THEN <<>>
    ELSE LET c == CHOOSE d \in S : \A e \in S :
                      \/ d.arg < e.arg
                      \/ d.arg = e.arg /\ ("left" \in d.pos \/ "left" \notin e.pos)
         IN  <<c>> \o StatementList(S \ {c})

\* The notebook's program followed by at most MaxExtra further constraints.
Programs ==
    {NotebookProgram \o StatementList(S) :
        S \in {T \in SUBSET ExtraConstraints : Cardinality(T) <= MaxExtra}}

\* The integers a program's facts mention: what X ranges over.
Universe(prog) ==
    UNION {1..prog[s].arg : s \in {t \in 1..Len(prog) : prog[t].kind = "facts"}}

\* The ground instances of one statement.
GroundStatement(st, U) ==
    CASE st.kind = "facts" ->
            {[head |-> <<st.head, x>>, pos |-> {}, neg |-> {}] : x \in 1..st.arg}
      [] st.kind = "rule" ->
            {[head |-> <<st.head, x>>,
              pos |-> {<<p, x>> : p \in st.pos},
              neg |-> {<<q, x>> : q \in st.neg}] : x \in U}
      [] st.kind = "constraint" ->
            {[head |-> Bottom,
              pos |-> {<<p, st.arg>> : p \in st.pos},
              neg |-> {<<q, st.arg>> : q \in st.neg}]}

\* The grounding of a program: variables compiled away.
GroundProgram(prog) ==
    UNION {GroundStatement(prog[s], Universe(prog)) : s \in 1..Len(prog)}

\* The atoms of a ground program.
Atoms(G) == {r.head : r \in G} \ {Bottom}

\* The reduct of G relative to M: rules with a negative literal false in M
\* are dropped, the remaining negative literals are dropped.
Reduct(G, M) ==
    {[head |-> r.head, pos |-> r.pos, neg |-> {}] : r \in {q \in G : q.neg \cap M = {}}}

\* The least set of atoms closed under the definite rules of R, from I up.
RECURSIVE LeastModel(_, _)
LeastModel(R, I) ==
    LET J == I \cup {r.head : r \in {q \in R : q.head # Bottom /\ q.pos \subseteq I}}
    IN  IF J = I THEN I ELSE LeastModel(R, J)

\* M is a stable model of G.
IsAnswerSet(G, M) ==
    LET R == Reduct(G, M)
    IN  /\ LeastModel(R, {}) = M
        /\ \A r \in R : r.head = Bottom => ~(r.pos \subseteq M)

AnswerSets(G) == {M \in SUBSET Atoms(G) : IsAnswerSet(G, M)}

\* Cells 1 and 2 have run: clingo is imported and asp_program is defined.
InitASP ==
    /\ notebook = "asp"
    /\ asp_program \in Programs
    /\ control = None
    /\ models = 0
    /\ found = {}
    /\ pc = "cell3"
    /\ calls = <<>>
    /\ out = <<>>
    /\ answer = None
    /\ num_vertices = 0
    /\ edges = <<>>
    /\ model = CpModel
    /\ vars = <<>>
    /\ i = 1
    /\ solution = None

\* Cell 3: control = clingo.Control()
NewControl ==
    /\ notebook = "asp" /\ pc = "cell3"
    /\ control' = [parts |-> <<>>, grounded |-> FALSE, rules |-> {}]
    /\ calls' = Append(calls, "Control")
    /\ pc' = "cell3_add"
    /\ UNCHANGED <<notebook, out, cspVars, answer, asp_program, models, found>>

\* Cell 3: control.add("base", [], asp_program)
AddProgram ==
    /\ notebook = "asp" /\ pc = "cell3_add"
    /\ control' = [control EXCEPT
                      !.parts = Append(@, [name |-> "base", program |-> asp_program])]
    /\ calls' = Append(calls, "add")
    /\ pc' = "cell3_ground"
    /\ UNCHANGED <<notebook, out, cspVars, answer, asp_program, models, found>>

\* control.ground([(name, [])]): the parts of that name, grounded.
Ground(ctl, name) ==
    [ctl EXCEPT
        !.grounded = TRUE,
        !.rules = @ \cup UNION {GroundProgram(ctl.parts[p].program) :
                        p \in {q \in 1..Len(ctl.parts) : ctl.parts[q].name = name}}]

\* Cell 3: control.ground([("base", [])])
GroundBase ==
    /\ notebook = "asp" /\ pc = "cell3_ground"
    /\ control' = Ground(control, "base")
    /\ calls' = Append(calls, "ground")
    /\ pc' = "cell5"
    /\ UNCHANGED <<notebook, out, cspVars, answer, asp_program, models, found>>

\* Cell 5: control.configuration.solve.models = 1, or another number
\* ("use 0 if you want to find all models").
ConfigureModels ==
    /\ notebook = "asp" /\ pc = "cell5"
    /\ models' \in 0..MaxModels
    /\ pc' = "cell5_solve"
    /\ UNCHANGED <<notebook, calls, out, cspVars, answer, asp_program, control, found>>

\* Cell 5: control.solve(on_model=on_model) is entered.
SolveCall ==
    /\ notebook = "asp" /\ pc = "cell5_solve"
    /\ calls' = Append(calls, "solve")
    /\ found' = {}
    /\ pc' = "solving"
    /\ UNCHANGED <<notebook, out, cspVars, answer, asp_program, control, models>>

\* A limit that lets one model too many through.
WithinLimit_OffByOne(limit, n) == limit = 0 \/ n <= limit

\* The search goes on: the limit on the number of models (0: none) is not
\* reached.
WithinLimit(limit, n) == limit = 0 \/ n < limit

\* The answer sets the running solve can report next.
Reportable ==
    IF WithinLimit(models, Cardinality(found))
    THEN AnswerSets(control.rules) \ found
    ELSE {}

\* Cell 4: what on_model(model) prints: a line for each atom of the model.
OnModelLines(M) ==
    {<<"Atom with name {} and arguments {} is true in the model: {}",
       atom[1], <<atom[2]>>, atom>> : atom \in M}

\* The solver finds a model and calls on_model on it.
OnModel ==
    /\ notebook = "asp" /\ pc = "solving"
    /\ \E M \in Reportable :
          /\ found' = found \cup {M}
          /\ out' = Append(out, OnModelLines(M))
    /\ calls' = Append(calls, "on_model")
    /\ UNCHANGED <<notebook, pc, cspVars, answer, asp_program, control, models>>

\* What solve returns: satisfiable iff a model was found.
SolveResult(fnd) == [satisfiable |-> fnd # {}]

\* control.solve returns: answer = ...
SolveReturn ==
    /\ notebook = "asp" /\ pc = "solving"
    /\ Reportable = {}
    /\ answer' = SolveResult(found)
    /\ pc' = "cell6"
    /\ UNCHANGED <<notebook, calls, out, cspVars, asp_program, control, models, found>>

\* The test  if answer:  on the result object, which is always true.
Satisfiable_Truthy == answer.satisfiable \in BOOLEAN

\* The test of cell 6's if.
Satisfiable == answer.satisfiable = TRUE

\* Cell 6, then-branch: print("Found a model!")
PrintFound ==
    /\ notebook = "asp" /\ pc = "cell6"
    /\ Satisfiable
    /\ out' = Append(out, {<<"Found a model!">>})
    /\ pc' = "done"
    /\ UNCHANGED <<notebook, calls, cspVars, answer, aspVars>>

\* Cell 6, else-branch: print("Did not find a model!")
PrintNotFound ==
    /\ notebook = "asp" /\ pc = "cell6"
    /\ ~Satisfiable
    /\ out' = Append(out, {<<"Did not find a model!">>})
    /\ pc' = "done"
    /\ UNCHANGED <<notebook, calls, cspVars, answer, aspVars>>

NextASP ==
    \/ NewControl \/ AddProgram \/ GroundBase
    \/ ConfigureModels \/ SolveCall \/ OnModel \/ SolveReturn
    \/ PrintFound \/ PrintNotFound

----------------------------------------------------------------------------

Init == InitCSP \/ InitASP
Next == NextCSP \/ NextASP
Spec == Init /\ [][Next]_vars_all

----------------------------------------------------------------------------
(* Properties of 3coloring-csp.ipynb                                       *)

Count(seq, x) == Cardinality({p \in 1..Len(seq) : seq[p] = x})

\* The constraint loop of cell 4 has run to its end.
Built == notebook = "csp" /\ pc \in {"cell5", "cell5_if", "cell5_for", "done"}

\* C1: once the loop over the edges has registered its constraints, the
\* assignments of x_1..x_n that satisfy them stand for exactly the proper
\* 3-colorings of the graph: none is improper, none is left out, and no two
\* assignments stand for the same coloring.
C1_EncodingExact ==
    (notebook = "csp" /\ pc = "cell5") =>
        LET sat == SatisfyingAssignments(model)
            proper == ProperColorings(num_vertices, edges)
        IN  /\ {ColoringOf(a) : a \in sat} = proper
            /\ Cardinality(sat) = Cardinality(proper)

\* A graph with a triangle: some colorings are proper and some are not.
C1_Witness ==
    /\ notebook = "csp" /\ pc = "cell5"
    /\ Len(edges) >= 3
    /\ ProperColorings(num_vertices, edges) # {}
    /\ ProperColorings(num_vertices, edges) # Colorings(num_vertices)
    /\ Len(model.constraints) = Len(edges)

\* The then-branch of cell 5 was taken.
PrintedColorable == Len(out) >= 1 /\ out[1] = <<"The graph is 3-colorable:">>
PrintedNotColorable == Len(out) >= 1 /\ out[1] = <<"The graph is not 3-colorable!">>

\* The vertices whose line has been printed, and the color printed for each.
PrintedVertices == {out[l][2] : l \in 2..Len(out)}
PrintedColor(v) == out[CHOOSE l \in 2..Len(out) : out[l][2] = v][3]

\* C2: when the run of the notebook is over, "The graph is 3-colorable:"
\* and a color for every vertex are printed whenever the CSP instance has a
\* solution, whichever status the solver reported it with, and "The graph is
\* not 3-colorable!" is printed only if the graph has no proper 3-coloring.
C2_DecisionReporting ==
    (notebook = "csp" /\ pc = "done") =>
        /\ SatisfyingAssignments(model) # {} =>
              /\ PrintedColorable
              /\ PrintedVertices = 1..num_vertices
        /\ PrintedNotColorable => ProperColorings(num_vertices, edges) = {}

IsExample == notebook = "csp" /\ num_vertices = ExampleNumVertices /\ edges = ExampleEdges

\* The output recorded in the notebook.
RecordedColoring == <<1, 3, 2, 1>>

\* C3: for the example graph the CSP instance has a solution, the solver
\* reports one, and whatever is printed in the colorable branch is part of a
\* proper 3-coloring: every printed color is 1, 2 or 3 and the endpoints of
\* every edge are printed with different colors; 1,3,2,1 is such a coloring.
C3_ExamplePrintsProper ==
    IsExample =>
        /\ Built => SatisfyingAssignments(model) # {}
        /\ pc \in {"cell5_if", "cell5_for", "done"} => answer \in SolutionStatuses
        /\ PrintedColorable =>
              /\ \A v \in PrintedVertices : PrintedColor(v) \in {1, 2, 3}
              /\ \A e \in 1..Len(edges) :
                    {edges[e][1], edges[e][2]} \subseteq PrintedVertices
                        => PrintedColor(edges[e][1]) # PrintedColor(edges[e][2])
        /\ (pc = "done" /\ PrintedColorable) => PrintedVertices = 1..num_vertices
        /\ Built => \E a \in SatisfyingAssignments(model) : ColoringOf(a) = RecordedColoring

\* The run that printed the recorded output.
C3_Witness ==
    /\ IsExample /\ pc = "done"
    /\ out = << <<"The graph is 3-colorable:">>,
                <<"- Vertex {} gets color {}", 1, 1>>,
                <<"- Vertex {} gets color {}", 2, 3>>,
                <<"- Vertex {} gets color {}", 3, 2>>,
                <<"- Vertex {} gets color {}", 4, 1>> >>

\* C7: from the end of the variable loop on, vars has exactly the keys
\* 1..num_vertices and the variables of the model are those of vars, one for
\* each vertex, each with domain {1,2,3}.  So the assignments of the variables
\* are in one-to-one correspondence with all 3^n colorings of the vertices
\* (81 for the example): computed while the constraints are added and when
\* the solver is about to be called, and for the example at every later point.
C7_VariablesAreColorings ==
    (notebook = "csp" /\ pc # "cell3") =>
        /\ DOMAIN vars = 1..num_vertices
        /\ Len(model.variables) = num_vertices
        /\ {vars[v] : v \in DOMAIN vars} = 1..Len(model.variables)
        /\ \A v, w \in DOMAIN vars : vars[v] = vars[w] => v = w
        /\ \A v \in DOMAIN vars :
              model.variables[vars[v]].lo .. model.variables[vars[v]].hi = {1, 2, 3}
        /\ (pc \in {"cell4", "cell5"} \/ IsExample) =>
              /\ {ColoringOf(a) : a \in Assignments(model)}
                    = [1..num_vertices -> {1, 2, 3}]
              /\ Cardinality(Assignments(model)) = 3 ^ num_vertices
              /\ IsExample => Cardinality(Assignments(model)) = 81

\* The example after its run: four variables, 81 assignments.
C7_Witness ==
    /\ IsExample /\ pc = "done"
    /\ DOMAIN vars = 1..4
    /\ Cardinality(Assignments(model)) = 81

----------------------------------------------------------------------------
(* Properties of asp.ipynb                                                 *)

\* control.ground has returned.
Grounded == notebook = "asp" /\ pc \in {"cell5", "cell5_solve", "solving", "cell6", "done"}

\* control.solve has returned.
Solved == notebook = "asp" /\ pc \in {"cell6", "done"}

IsNotebookProgram == notebook = "asp" /\ asp_program = NotebookProgram

Number(x) == <<"number", x>>
Left(x) == <<"left", x>>
Right(x) == <<"right", x>>

\* The model printed in the notebook's recorded output.
RecordedModel == {Number(1), Number(2), Number(3), Right(1), Right(3), Left(2)}

\* The atom sets C4 describes.
DescribedAnswerSets ==
    {M \in SUBSET {<<p, x>> : p \in {"number", "left", "right"}, x \in 1..3} :
        /\ {Number(1), Number(2), Number(3)} \subseteq M
        /\ Left(2) \in M /\ Right(2) \notin M
        /\ \A x \in {1, 3} : (Left(x) \in M) # (Right(x) \in M)}

\* C4: the notebook's program, grounded, is satisfiable under the stable
\* model semantics and its answer sets are exactly the 4 described atom sets;
\* the recorded model is one of them.
C4_AnswerSets ==
    (Grounded /\ IsNotebookProgram) =>
        /\ AnswerSets(control.rules) # {}
        /\ AnswerSets(control.rules) = DescribedAnswerSets
        /\ Cardinality(AnswerSets(control.rules)) = 4
        /\ RecordedModel \in AnswerSets(control.rules)

\* The run that printed the recorded model.
C4_Witness ==
    /\ IsNotebookProgram /\ pc = "done"
    /\ models = SingleModel
    /\ out = <<OnModelLines(RecordedModel), {<<"Found a model!">>}>>

\* C5: with solve.models = 1 on_model is called at most once during the
\* solve, and exactly once by the time solve has returned if the program has
\* an answer set; with solve.models = 0 on_model has been called once for
\* each answer set when solve has returned.
C5_OnModelCalls ==
    (notebook = "asp" /\ pc \in {"solving", "cell6", "done"}) =>
        /\ models = SingleModel =>
              /\ Count(calls, "on_model") <= 1
              /\ (Solved /\ AnswerSets(control.rules) # {}) =>
                    Count(calls, "on_model") = 1
              /\ (Solved /\ AnswerSets(control.rules) = {}) =>
                    Count(calls, "on_model") = 0
        /\ (models = 0 /\ Solved) =>
              /\ found = AnswerSets(control.rules)
              /\ Count(calls, "on_model") = Cardinality(AnswerSets(control.rules))
              /\ \A M \in found : Count(out, OnModelLines(M)) = 1

\* The notebook's run: 4 answer sets, one call of on_model.
C5_Witness ==
    /\ IsNotebookProgram /\ Solved
    /\ models = SingleModel
    /\ Cardinality(AnswerSets(control.rules)) = 4
    /\ Count(calls, "on_model") = 1

FoundMessage == {<<"Found a model!">>}
NotFoundMessage == {<<"Did not find a model!">>}

\* C6: before cell 6 neither message is printed; after it exactly one is,
\* and it is "Found a model!" exactly if solve found a model, that is if
\* on_model was called, that is if the program has an answer set; with
\* "Did not find a model!" nothing else was printed.
C6_SatisfiabilityReport ==
    notebook = "asp" =>
        /\ pc # "done" => Count(out, FoundMessage) + Count(out, NotFoundMessage) = 0
        /\ pc = "done" =>
              /\ Count(out, FoundMessage) + Count(out, NotFoundMessage) = 1
              /\ out[Len(out)] \in {FoundMessage, NotFoundMessage}
              /\ Count(out, FoundMessage) = 1 <=> Count(calls, "on_model") >= 1
              /\ Count(out, FoundMessage) = 1 <=> found # {}
              /\ Count(out, FoundMessage) = 1 <=> AnswerSets(control.rules) # {}
              /\ Count(out, NotFoundMessage) = 1 => out = <<NotFoundMessage>>

\* A program without answer sets: only "Did not find a model!" is printed.
C6_Witness ==
    /\ notebook = "asp" /\ pc = "done"
    /\ AnswerSets(control.rules) = {}
    /\ out = <<NotFoundMessage>>

----------------------------------------------------------------------------
(* Both notebooks                                                          *)

\* The place of a library call in its notebook's pipeline.
Stage(c) ==
    CASE c \in {"NewIntVar", "Control"} -> 1
      [] c \in {"Add", "add"} -> 2
      [] c = "ground" -> 3
      [] c \in {"Solve", "solve"} -> 4
      [] c \in {"Value", "on_model"} -> 5

\* C8: every run is build, then solve, then print.  The calls are made in
\* the order of the pipeline; the solver is called at most once, and once in
\* a finished run; when it is called the instance is complete (CSP: a
\* variable for each vertex before the first constraint, a constraint for
\* each edge before Solve; ASP: Control, add, ground, each once); nothing is
\* printed before the solver is called, a solution is printed only if the
\* solver has produced it, and solver.Value is read only after Solve has
\* returned and only in the colorable branch.
C8_LinearPipeline ==
    /\ \A q \in 1..(Len(calls) - 1) : Stage(calls[q]) <= Stage(calls[q + 1])
    /\ Count(calls, "Solve") + Count(calls, "solve") <= 1
    /\ pc = "done" => Count(calls, "Solve") + Count(calls, "solve") = 1
    /\ out # <<>> => Count(calls, "Solve") + Count(calls, "solve") = 1
    /\ notebook = "csp" =>
          /\ \A q \in 1..Len(calls) : calls[q] \in {"NewIntVar", "Add", "Solve", "Value"}
          /\ Count(calls, "Add") > 0 => Count(calls, "NewIntVar") = num_vertices
          /\ Count(calls, "Solve") > 0 =>
                /\ Count(calls, "NewIntVar") = num_vertices
                /\ Count(calls, "Add") = Len(edges)
                /\ Len(model.variables) = num_vertices
                /\ Len(model.constraints) = Len(edges)
          /\ out # <<>> => pc \in {"cell5_for", "done"}
          /\ Count(calls, "Value") > 0 =>
                /\ pc \in {"cell5_for", "done"}
                /\ Colorable /\ PrintedColorable
                /\ solution \in SatisfyingAssignments(model)
          /\ \A l \in 2..Len(out) : out[l][3] = solution[vars[out[l][2]]]
          /\ Count(calls, "Value") = Len(out) - 1 \/ Count(calls, "Value") = 0
    /\ notebook = "asp" =>
          /\ \A q \in 1..Len(calls) :
                calls[q] \in {"Control", "add", "ground", "solve", "on_model"}
          /\ Count(calls, "Control") <= 1 /\ Count(calls, "add") <= 1
          /\ Count(calls, "ground") <= 1
          /\ Count(calls, "solve") > 0 =>
                /\ SubSeq(calls, 1, 4) = <<"Control", "add", "ground", "solve">>
                /\ control.grounded
                /\ Len(control.parts) = 1 /\ control.parts[1].program = asp_program
          /\ Count(calls, "on_model") = Cardinality(found)
          /\ pc \in {"solving", "cell6"} =>
                /\ Len(out) = Count(calls, "on_model")
                /\ \A l \in 1..Len(out) : \E M \in found : out[l] = OnModelLines(M)
          /\ pc = "done" =>
                /\ Len(out) = Count(calls, "on_model") + 1
                /\ \A l \in 1..(Len(out) - 1) : \E M \in found : out[l] = OnModelLines(M)

\* A finished run of each shape: the example graph colored, and an answer
\* set program solved for all its models.
C8_Witness ==
    /\ pc = "done"
    /\ \/ /\ IsExample
          /\ Count(calls, "NewIntVar") = 4 /\ Count(calls, "Add") = 5
          /\ Count(calls, "Solve") = 1 /\ Count(calls, "Value") = 4
       \/ /\ IsNotebookProgram
          /\ calls = <<"Control", "add", "ground", "solve", "on_model">>

====
